---- MODULE Spec2Model ----
(***************************************************************************)
(* kudu::Status (src/util/status.h): a copyable operation result.  An OK   *)
(* Status has a NULL state_; a failed Status exclusively owns one new[]    *)
(* block  state_[0..3] length, state_[4] code, state_[5..6] posix_code,    *)
(* state_[7..] message.  The model keeps the heap of payload blocks, the   *)
(* Status instances of a program, the position of an operator= in flight,  *)
(* the reader threads of a shared instance and one expansion of the        *)
(* RETURN_NOT_OK macros.                                                   *)
(***************************************************************************)
EXTENDS Integers, Sequences, FiniteSets

\* ------------------------------------------------------------- bounds
\* number of Status instances (stack slots) of the modelled program
NumInst == 3
\* addresses new[] can hand out (an address is reused after delete[]): one
\* per instance, so that new[] never fails
MaxBlocks == NumInst
\* number of threads calling const methods on the shared instance
NumReaders == 2

Inst == 1..NumInst
\* the first two instances, which the programs with roles name
InstA == CHOOSE i \in Inst : \A j \in Inst : i <= j
InstB == InstA + 1
Addr == 1..MaxBlocks
Readers == 1..NumReaders

\* ------------------------------------------------------------- enum Code
kOk == 0
kNotFound == 1
kCorruption == 2
kNotSupported == 3
kInvalidArgument == 4
kIOError == 5
kAlreadyPresent == 6
kRuntimeError == 7
kNetworkError == 8
kIllegalState == 9
kNotAuthorized == 10
kAborted == 11
kRemoteError == 12
kServiceUnavailable == 13
kTimedOut == 14
kUninitialized == 15
kConfigurationError == 16

\* the NULL state_ of an OK status; the addresses of blocks are 1..MaxBlocks
NULL == 0

\* the default of the factories' posix_code parameter
DefaultPosixCode == -1

\* the 16 error categories, by the name of their factory and predicate
Categories ==
  { "NotFound", "Corruption", "NotSupported", "InvalidArgument", "IOError",
    "AlreadyPresent", "RuntimeError", "NetworkError", "IllegalState",
    "NotAuthorized", "Aborted", "RemoteError", "ServiceUnavailable",
    "TimedOut", "Uninitialized", "ConfigurationError" }

\* ------------------------------------------------------------- inputs
\* message bytes: "a" = 97, "b" = 98
MsgA == <<97>>
MsgB == <<98>>
Empty == <<>>
\* ": "
Delim == <<58, 32>>

\* factory arguments of the value specification: every category, empty and
\* non-empty fragments, posix_code omitted (<<>>) or given as an int16_t
ValueMsgs == { Empty, MsgA }
ValueMsgs2 == { Empty, MsgB }
ValuePosix == { <<>>, <<-1>>, <<0>>, <<2>>, <<255>>, <<256>>, <<32767>>, <<-32768>> }

\* factory calls of the lifecycle specifications: two calls that differ in
\* category, message and posix_code
LifeCalls ==
  { << "NotFound", MsgA, Empty, << 2 >> >>,
    << "ConfigurationError", MsgB, MsgA, << >> >> }

\* ------------------------------------------------------------- encoding
Min(a, b) == IF a < b THEN a ELSE b

\* memcpy of a uint32_t into state_[0..3] (little endian)
EncodeFixed32(n) ==
  << n % 256, (n \div 256) % 256, (n \div 65536) % 256, (n \div 16777216) % 256 >>

\* memcpy of state_[0..3] back into a uint32_t
DecodeFixed32(s) == s[1] + 256 * s[2] + 65536 * s[3] + 16777216 * s[4]

\* memcpy of an int16_t into state_[5..6] (two's complement, little endian)
EncodeInt16(p) ==
  LET u == (p + 65536) % 65536 IN << u % 256, u \div 256 >>

\* memcpy of state_[5..6] back into an int16_t
DecodeInt16(lo, hi) ==
  LET u == lo + 256 * hi IN IF u >= 32768 THEN u - 65536 ELSE u

\* Status(Code code, const Slice& msg, const Slice& msg2, int16_t posix_code):
\* the payload block, state_[k] being element k + 1
StatusCtor(c, msg, msg2, posix) ==
  LET both == Len(msg) # 0 /\ Len(msg2) # 0
      text == IF both THEN msg \o Delim \o msg2 ELSE msg \o msg2
  IN  EncodeFixed32(Len(text)) \o << c >> \o EncodeInt16(posix) \o text

\* CopyState(const char* s): a fresh array holding the header and the message
CopyState(s) ==
  LET size == DecodeFixed32(s) IN SubSeq(s, 1, Min(size + 7, Len(s)))

\* ------------------------------------------------------------- factories
NotFound(msg, msg2, posix) == StatusCtor(kNotFound, msg, msg2, posix)
Corruption(msg, msg2, posix) == StatusCtor(kCorruption, msg, msg2, posix)
NotSupported(msg, msg2, posix) == StatusCtor(kNotSupported, msg, msg2, posix)
InvalidArgument(msg, msg2, posix) == StatusCtor(kInvalidArgument, msg, msg2, posix)
\* mutant: the IOError factory passing its neighbour's code
IOErrorAsInvalidArgument(msg, msg2, posix) == StatusCtor(kInvalidArgument, msg, msg2, posix)
IOError(msg, msg2, posix) == StatusCtor(kIOError, msg, msg2, posix)
AlreadyPresent(msg, msg2, posix) == StatusCtor(kAlreadyPresent, msg, msg2, posix)
RuntimeError(msg, msg2, posix) == StatusCtor(kRuntimeError, msg, msg2, posix)
NetworkError(msg, msg2, posix) == StatusCtor(kNetworkError, msg, msg2, posix)
IllegalState(msg, msg2, posix) == StatusCtor(kIllegalState, msg, msg2, posix)
NotAuthorized(msg, msg2, posix) == StatusCtor(kNotAuthorized, msg, msg2, posix)
Aborted(msg, msg2, posix) == StatusCtor(kAborted, msg, msg2, posix)
RemoteError(msg, msg2, posix) == StatusCtor(kRemoteError, msg, msg2, posix)
ServiceUnavailable(msg, msg2, posix) == StatusCtor(kServiceUnavailable, msg, msg2, posix)
TimedOut(msg, msg2, posix) == StatusCtor(kTimedOut, msg, msg2, posix)
Uninitialized(msg, msg2, posix) == StatusCtor(kUninitialized, msg, msg2, posix)
ConfigurationError(msg, msg2, posix) == StatusCtor(kConfigurationError, msg, msg2, posix)

\* mutant: posix_code defaulting to 0
PosixArgZeroDefault(parg) == IF Len(parg) = 0 THEN 0 ELSE parg[1]

\* a call  Status::<name>(msg, msg2 [, posix_code]) : parg is <<>> when the
\* caller leaves posix_code to its default, <<p>> when it passes p
PosixArg(parg) == IF Len(parg) = 0 THEN DefaultPosixCode ELSE parg[1]

Factory(name, msg, msg2, parg) ==
  LET p == PosixArg(parg) IN
  CASE name = "NotFound" -> NotFound(msg, msg2, p)
    [] name = "Corruption" -> Corruption(msg, msg2, p)
    [] name = "NotSupported" -> NotSupported(msg, msg2, p)
    [] name = "InvalidArgument" -> InvalidArgument(msg, msg2, p)
    [] name = "IOError" -> IOError(msg, msg2, p)
    [] name = "AlreadyPresent" -> AlreadyPresent(msg, msg2, p)
    [] name = "RuntimeError" -> RuntimeError(msg, msg2, p)
    [] name = "NetworkError" -> NetworkError(msg, msg2, p)
    [] name = "IllegalState" -> IllegalState(msg, msg2, p)
    [] name = "NotAuthorized" -> NotAuthorized(msg, msg2, p)
    [] name = "Aborted" -> Aborted(msg, msg2, p)
    [] name = "RemoteError" -> RemoteError(msg, msg2, p)
    [] name = "ServiceUnavailable" -> ServiceUnavailable(msg, msg2, p)
    [] name = "TimedOut" -> TimedOut(msg, msg2, p)
    [] name = "Uninitialized" -> Uninitialized(msg, msg2, p)
    [] name = "ConfigurationError" -> ConfigurationError(msg, msg2, p)

\* ------------------------------------------------------------- state
VARIABLES
  inst,       \* inst[i]: [alive, state_] of Status instance i
  heap,       \* heap[p]: [bytes, live, bad] of the array at address p
  pend,       \* the operator= between its delete[] and its store, or NoPend
  last,       \* the call that completed last (history)
  orig,       \* orig[i]: the report instance i was given (history)
  rd,         \* rd[t]: reader thread t's call, position, register and result
  readFreed,  \* some reader has dereferenced a freed block (history)
  mac         \* one expansion of RETURN_NOT_OK / RETURN_NOT_OK_PREPEND

vars == << inst, heap, pend, last, orig, rd, readFreed, mac >>

NoPend == [tgt |-> 0, src |-> 0]

\* a completed call: its target, its source (0: none), the target's state_
\* when the call began, and a factory's arguments
NoCall == [op |-> "none", tgt |-> 0, src |-> 0, old |-> 0, name |-> "",
           msg |-> Empty, msg2 |-> Empty, parg |-> <<>>]
Call(op, tgt, src, old) ==
  [NoCall EXCEPT !.op = op, !.tgt = tgt, !.src = src, !.old = old]
FactoryCall(tgt, name, msg, msg2, parg) ==
  [op |-> "factory", tgt |-> tgt, src |-> 0, old |-> 0, name |-> name,
   msg |-> msg, msg2 |-> msg2, parg |-> parg]

\* ------------------------------------------------------------- heap
\* heap[p].live: p is allocated; heap[p].bytes: the array at p while allocated;
\* heap[p].bad: delete[] was applied to p while p was not allocated (history)

\* the contents of an array whose bytes the program does not determine: a
\* freed array, which the allocator overwrites as it pleases, and whatever was
\* copied out of one
Indeterminate == << >>

\* the values a read of one char may give when nothing determines it (char is
\* signed or unsigned, as the target has it)
CharValues == -128..255

Live(p) == p \in Addr /\ heap[p].live
FreeAddrs == { p \in Addr : ~heap[p].live }

\* delete[] p on heap h (delete[] NULL does nothing; a second delete[] of the
\* same array is recorded in bad)
DeleteArr(h, p) ==
  IF p = NULL THEN h
  ELSE IF h[p].live
  THEN [h EXCEPT ![p] = [bytes |-> Indeterminate, live |-> FALSE, bad |-> @.bad]]
  ELSE [h EXCEPT ![p].bad = TRUE]

\* new char[] returning address p of heap h, then filled with bytes
NewArr(h, p, bytes) == [h EXCEPT ![p] = [bytes |-> bytes, live |-> TRUE, bad |-> @.bad]]

\* the array at p on heap h is allocated and its bytes were written by the
\* program (by its present owner, when the address was handed out again)
Determined(h, p) == h[p].live /\ h[p].bytes # Indeterminate

\* the values a read of p[k-1] may give on heap h: the byte stored there while
\* the array is determined, any value otherwise (undefined behaviour)
ReadChar(h, p, k) == IF Determined(h, p) THEN { h[p].bytes[k] } ELSE CharValues

\* ------------------------------------------------------------- const methods
state_(i) == inst[i].state_

\* mutant: the test of ok() inverted
okInverted(i) == state_(i) # NULL

\* bool ok() const
ok(i) == state_(i) = NULL

\* Code code() const, on an instance whose state_ is NULL or determined
code(i) == IF state_(i) = NULL THEN kOk ELSE heap[state_(i)].bytes[5]

\* bool Is<Category>() const { return code() == k<Category>; } : c is what
\* the call of code() returned
IsNotFound(c) == c = kNotFound
IsCorruption(c) == c = kCorruption
IsNotSupported(c) == c = kNotSupported
IsIOError(c) == c = kIOError
IsInvalidArgument(c) == c = kInvalidArgument
IsAlreadyPresent(c) == c = kAlreadyPresent
IsRuntimeError(c) == c = kRuntimeError
IsNetworkError(c) == c = kNetworkError
IsIllegalState(c) == c = kIllegalState
IsNotAuthorized(c) == c = kNotAuthorized
IsAborted(c) == c = kAborted
IsRemoteError(c) == c = kRemoteError
IsServiceUnavailable(c) == c = kServiceUnavailable
IsTimedOut(c) == c = kTimedOut
IsUninitialized(c) == c = kUninitialized
IsConfigurationError(c) == c = kConfigurationError

\* the call  s.Is<name>(), c being what its call of code() returned
Is(name, c) ==
  CASE name = "NotFound" -> IsNotFound(c)
    [] name = "Corruption" -> IsCorruption(c)
    [] name = "NotSupported" -> IsNotSupported(c)
    [] name = "InvalidArgument" -> IsInvalidArgument(c)
    [] name = "IOError" -> IsIOError(c)
    [] name = "AlreadyPresent" -> IsAlreadyPresent(c)
    [] name = "RuntimeError" -> IsRuntimeError(c)
    [] name = "NetworkError" -> IsNetworkError(c)
    [] name = "IllegalState" -> IsIllegalState(c)
    [] name = "NotAuthorized" -> IsNotAuthorized(c)
    [] name = "Aborted" -> IsAborted(c)
    [] name = "RemoteError" -> IsRemoteError(c)
    [] name = "ServiceUnavailable" -> IsServiceUnavailable(c)
    [] name = "TimedOut" -> IsTimedOut(c)
    [] name = "Uninitialized" -> IsUninitialized(c)
    [] name = "ConfigurationError" -> IsConfigurationError(c)

\* Slice message() const : the message bytes, empty for OK
message(i) ==
  IF state_(i) = NULL THEN Empty
  ELSE LET b == heap[state_(i)].bytes
       IN  SubSeq(b, 8, Min(7 + DecodeFixed32(b), Len(b)))

\* int16_t posix_code() const : the stored code, -1 if there is none
posix_code(i) ==
  IF state_(i) = NULL THEN -1
  ELSE LET b == heap[state_(i)].bytes IN DecodeInt16(b[6], b[7])

\* what callers can observe of a status: its category and its message
Report(i) == << code(i), message(i) >>


\* state_ is NULL or points to an allocated array
Valid(i) == state_(i) = NULL \/ Live(state_(i))

\* state_ is NULL or points to an allocated array of determined bytes: the
\* const methods of i are defined
Known(i) == state_(i) = NULL \/ (Live(state_(i)) /\ Determined(heap, state_(i)))

\* ------------------------------------------------------------- history
\* orig[i]: what instance i reported when it was given its value, which for a
\* copy is what its source reported then
NoOrig == << kOk, Empty >>

\* the report of a copy's source when the copy is made
SrcReport(j) == IF Known(j) THEN Report(j) ELSE << -1, Empty >>

\* the report of the status a constructor has just built in array bytes
BuiltReport(bytes) == << bytes[5], SubSeq(bytes, 8, Len(bytes)) >>

\* ------------------------------------------------------------- construction
Idle == pend = NoPend
Threads == << rd, readFreed, mac >>

\* Status() : state_(NULL) { }
DefaultCtor(i) ==
  /\ Idle /\ ~inst[i].alive
  /\ inst' = [inst EXCEPT ![i] = [alive |-> TRUE, state_ |-> NULL]]
  /\ last' = Call("Status", i, 0, NULL)
  /\ orig' = [orig EXCEPT ![i] = NoOrig]
  /\ UNCHANGED << heap, pend, Threads >>

\* static Status OK() { return Status(); }
OK(i) ==
  /\ Idle /\ ~inst[i].alive
  /\ inst' = [inst EXCEPT ![i] = [alive |-> TRUE, state_ |-> NULL]]
  /\ last' = Call("OK", i, 0, NULL)
  /\ orig' = [orig EXCEPT ![i] = NoOrig]
  /\ UNCHANGED << heap, pend, Threads >>

\* Status s = Status::<name>(msg, msg2 [, posix_code]);
FactoryCtor(i, name, msg, msg2, parg) ==
  /\ Idle /\ ~inst[i].alive
  /\ \E p \in FreeAddrs :
       /\ heap' = NewArr(heap, p, Factory(name, msg, msg2, parg))
       /\ inst' = [inst EXCEPT ![i] = [alive |-> TRUE, state_ |-> p]]
  /\ last' = FactoryCall(i, name, msg, msg2, parg)
  /\ orig' = [orig EXCEPT ![i] = BuiltReport(Factory(name, msg, msg2, parg))]
  /\ UNCHANGED << pend, Threads >>

\* (s.state_ == NULL) ? NULL : CopyState(s.state_)  on heap h for the source
\* pointer sp: the pairs << pointer, heap >> that may result. A copy read out
\* of an array that is not determined has no determined byte either (or the
\* call does not return, which is the behaviour that stops here).
CopyOf(h, sp) ==
  IF sp = NULL THEN { << NULL, h >> }
  ELSE { << p, NewArr(h, p, IF Determined(h, sp) THEN CopyState(h[sp].bytes)
                            ELSE Indeterminate) >> :
           p \in { q \in Addr : ~h[q].live } }

\* mutant: a copy constructor that shares the source's array
CopyCtorShallow(i, j) ==
  /\ Idle /\ ~inst[i].alive /\ inst[j].alive
  /\ inst' = [inst EXCEPT ![i] = [alive |-> TRUE, state_ |-> state_(j)]]
  /\ last' = Call("copy", i, j, NULL)
  /\ orig' = [orig EXCEPT ![i] = SrcReport(j)]
  /\ UNCHANGED << heap, pend, Threads >>

\* Status(const Status& s) : instance i is constructed from instance j
CopyCtor(i, j) ==
  /\ Idle /\ ~inst[i].alive /\ inst[j].alive
  /\ \E r \in CopyOf(heap, state_(j)) :
       /\ heap' = r[2]
       /\ inst' = [inst EXCEPT ![i] = [alive |-> TRUE, state_ |-> r[1]]]
  /\ last' = Call("copy", i, j, NULL)
  /\ orig' = [orig EXCEPT ![i] = SrcReport(j)]
  /\ UNCHANGED << pend, Threads >>

\* ~Status() { delete[] state_; }
Destroy(i) ==
  /\ Idle /\ inst[i].alive
  /\ heap' = DeleteArr(heap, state_(i))
  /\ inst' = [inst EXCEPT ![i] = [alive |-> FALSE, state_ |-> NULL]]
  /\ last' = Call("destroy", i, 0, state_(i))
  /\ orig' = [orig EXCEPT ![i] = NoOrig]
  /\ UNCHANGED << pend, Threads >>

\* ------------------------------------------------------------- operator=
\* mutant: operator= without its test
NeedsCopyAlways(i, j) == TRUE

\* if (state_ != s.state_)
NeedsCopy(i, j) == state_(i) # state_(j)

\* operator= whose test is false: it returns at once
AssignSkip(i, j) ==
  /\ Idle /\ inst[i].alive /\ inst[j].alive
  /\ ~NeedsCopy(i, j)
  /\ last' = Call("assign", i, j, state_(i))
  /\ orig' = [orig EXCEPT ![i] = SrcReport(j)]
  /\ UNCHANGED << inst, heap, pend, Threads >>

\* mutant: operator= that forgets  delete[] state_;
AssignDeleteLeaks(i, j) ==
  /\ Idle /\ inst[i].alive /\ inst[j].alive
  /\ NeedsCopy(i, j)
  /\ pend' = [tgt |-> i, src |-> j]
  /\ UNCHANGED << inst, heap, last, orig, Threads >>

\* mutant: operator= that deletes the source's array,  delete[] s.state_;
AssignDeleteFreesSource(i, j) ==
  /\ Idle /\ inst[i].alive /\ inst[j].alive
  /\ NeedsCopy(i, j)
  /\ heap' = DeleteArr(heap, state_(j))
  /\ pend' = [tgt |-> i, src |-> j]
  /\ UNCHANGED << inst, last, orig, Threads >>

\* operator= whose test is true, up to and including  delete[] state_;
AssignDelete(i, j) ==
  /\ Idle /\ inst[i].alive /\ inst[j].alive
  /\ NeedsCopy(i, j)
  /\ heap' = DeleteArr(heap, state_(i))
  /\ pend' = [tgt |-> i, src |-> j]
  /\ UNCHANGED << inst, last, orig, Threads >>

\* mutant: operator= that stores only a copied array, never NULL:
\*   if (s.state_ != NULL) state_ = CopyState(s.state_);
AssignStoreSkipsNull ==
  /\ ~Idle
  /\ \E r \in CopyOf(heap, state_(pend.src)) :
       /\ heap' = r[2]
       /\ inst' = IF state_(pend.src) = NULL THEN inst
                  ELSE [inst EXCEPT ![pend.tgt].state_ = r[1]]
  /\ last' = Call("assign", pend.tgt, pend.src, state_(pend.tgt))
  /\ orig' = [orig EXCEPT ![pend.tgt] = SrcReport(pend.src)]
  /\ pend' = NoPend
  /\ UNCHANGED Threads

\* mutant: operator= that shares the source's array,  state_ = s.state_;
AssignStoreShallow ==
  /\ ~Idle
  /\ inst' = [inst EXCEPT ![pend.tgt].state_ = state_(pend.src)]
  /\ last' = Call("assign", pend.tgt, pend.src, state_(pend.tgt))
  /\ orig' = [orig EXCEPT ![pend.tgt] = SrcReport(pend.src)]
  /\ pend' = NoPend
  /\ UNCHANGED << heap, Threads >>

\* state_ = (s.state_ == NULL) ? NULL : CopyState(s.state_);
AssignStore ==
  /\ ~Idle
  /\ \E r \in CopyOf(heap, state_(pend.src)) :
       /\ heap' = r[2]
       /\ inst' = [inst EXCEPT ![pend.tgt].state_ = r[1]]
  /\ last' = Call("assign", pend.tgt, pend.src, state_(pend.tgt))
  /\ orig' = [orig EXCEPT ![pend.tgt] = SrcReport(pend.src)]
  /\ pend' = NoPend
  /\ UNCHANGED Threads

\* ------------------------------------------------------------- Spec
NoReader == [pc |-> "idle", call |-> "", reg |-> NULL, res |-> << >>]
NoMacro == [pc |-> "off", kind |-> "", prefix |-> Empty, evals |-> 0,
            sOk |-> TRUE, sReport |-> << kOk, Empty >>, cloneOnOk |-> FALSE]

Init ==
  /\ inst = [i \in Inst |-> [alive |-> FALSE, state_ |-> NULL]]
  /\ heap = [p \in Addr |-> [bytes |-> Indeterminate, live |-> FALSE, bad |-> FALSE]]
  /\ pend = NoPend
  /\ last = NoCall
  /\ orig = [i \in Inst |-> NoOrig]
  /\ rd = [t \in Readers |-> NoReader]
  /\ readFreed = FALSE
  /\ mac = NoMacro

\* a single-threaded program constructing, copying, assigning and destroying
Next ==
  \/ \E i \in Inst : DefaultCtor(i)
  \/ \E i \in Inst : OK(i)
  \/ \E i \in Inst, c \in LifeCalls : FactoryCtor(i, c[1], c[2], c[3], c[4])
  \/ \E i, j \in Inst : CopyCtor(i, j)
  \/ \E i \in Inst : Destroy(i)
  \/ \E i, j \in Inst : AssignSkip(i, j)
  \/ \E i, j \in Inst : AssignDelete(i, j)
  \/ AssignStore

Spec == Init /\ [][Next]_vars

\* ------------------------------------------------------------- values
\* one Status built by every constructor and factory, with every argument
ValueInst == InstA

NextValue ==
  \/ DefaultCtor(ValueInst)
  \/ OK(ValueInst)
  \/ \E name \in Categories, msg \in ValueMsgs, msg2 \in ValueMsgs2,
        parg \in ValuePosix :
       FactoryCtor(ValueInst, name, msg, msg2, parg)
  \/ Destroy(ValueInst)

SpecValue == Init /\ [][NextValue]_vars

\* ------------------------------------------------------------- copies
\* a program with three roles: a, which is constructed, reassigned from the
\* temporaries and destroyed; b, which only ever receives its value from a;
\* and the temporaries c, the other instances
CopyA == InstA
CopyB == InstB
CopyC == Inst \ { CopyA, CopyB }

NextCopy ==
  \/ \E i \in Inst : DefaultCtor(i)
  \/ \E i \in { CopyA } \cup CopyC : OK(i)
  \/ \E i \in { CopyA } \cup CopyC, c \in LifeCalls :
       FactoryCtor(i, c[1], c[2], c[3], c[4])
  \/ CopyCtor(CopyB, CopyA)
  \/ \E i \in Inst : Destroy(i)
  \/ AssignSkip(CopyB, CopyA)
  \/ AssignDelete(CopyB, CopyA)
  \/ \E c \in CopyC : AssignSkip(CopyA, c)
  \/ \E c \in CopyC : AssignDelete(CopyA, c)
  \/ AssignStore

SpecCopy == Init /\ [][NextCopy]_vars

\* ------------------------------------------------------------- readers
\* the instance the reader threads share, the instance the writer thread
\* keeps to itself, and the const methods the readers call
Shared == InstA
Private == InstB
ReaderCalls == { "code", "NotFound", "IOError" }

\* the result of a const method in a sequential execution
SeqResult(call) ==
  IF call = "ok" THEN ok(Shared)
  ELSE IF call = "code" THEN code(Shared)
  ELSE Is(call, code(Shared))

\* ok() : one load of state_
RdOk(t) ==
  /\ inst[Shared].alive /\ rd[t].pc = "idle"
  /\ rd' = [rd EXCEPT ![t] = [pc |-> "done", call |-> "ok", reg |-> NULL,
                              res |-> << state_(Shared) = NULL >>]]
  /\ UNCHANGED << inst, heap, pend, last, orig, readFreed, mac >>

\* code(), alone or inside Is<call>() : the load of state_ and its test
RdLoad(t, call) ==
  /\ inst[Shared].alive /\ rd[t].pc = "idle"
  /\ rd' = [rd EXCEPT ![t] =
              IF state_(Shared) = NULL
              THEN [pc |-> "done", call |-> call, reg |-> NULL,
                    res |-> << IF call = "code" THEN kOk ELSE Is(call, kOk) >>]
              ELSE [pc |-> "loaded", call |-> call, reg |-> state_(Shared),
                    res |-> << >>]]
  /\ UNCHANGED << inst, heap, pend, last, orig, readFreed, mac >>

\* code() : the read of state_[4] through the loaded pointer
RdDeref(t) ==
  /\ rd[t].pc = "loaded"
  /\ \E c \in ReadChar(heap, rd[t].reg, 5) :
       rd' = [rd EXCEPT ![t].pc = "done",
                        ![t].res = << IF rd[t].call = "code" THEN c
                                      ELSE Is(rd[t].call, c) >>]
  /\ readFreed' = (readFreed \/ ~heap[rd[t].reg].live)
  /\ UNCHANGED << inst, heap, pend, last, orig, mac >>

\* the call returns; the thread may call again
RdReturn(t) ==
  /\ rd[t].pc = "done"
  /\ rd' = [rd EXCEPT ![t] = NoReader]
  /\ UNCHANGED << inst, heap, pend, last, orig, readFreed, mac >>

\* one writer thread, which constructs the shared instance and afterwards only
\* reads it, and any number of reader threads
NextMT ==
  \/ \E i \in { Shared, Private } : DefaultCtor(i)
  \/ \E i \in { Shared, Private }, c \in LifeCalls :
       FactoryCtor(i, c[1], c[2], c[3], c[4])
  \/ CopyCtor(Private, Shared)
  \/ Destroy(Private)
  \/ \E j \in { Shared, Private } : AssignSkip(Private, j)
  \/ \E j \in { Shared, Private } : AssignDelete(Private, j)
  \/ AssignStore
  \/ \E t \in Readers : RdOk(t)
  \/ \E t \in Readers, call \in ReaderCalls : RdLoad(t, call)
  \/ \E t \in Readers : RdDeref(t)
  \/ \E t \in Readers : RdReturn(t)

SpecMT == Init /\ [][NextMT]_vars

\* ------------------------------------------------------------- macros
\* the macro's local _s and the enclosing function's return value
MacroS == InstA
MacroRet == InstB
MacroKinds == { "RETURN_NOT_OK", "RETURN_NOT_OK_PREPEND" }
MacroPrefix == << 99 >>

\* Status CloneAndPrepend(const Slice& msg) const, on the payload bytes
CloneAndPrepend(bytes, msg) ==
  StatusCtor(bytes[5], msg, SubSeq(bytes, 8, Min(7 + DecodeFixed32(bytes), Len(bytes))),
             DecodeInt16(bytes[6], bytes[7]))

\* the outcomes of  _s.CloneAndPrepend(msg)  on heap h for the pointer sp of
\* _s: the clone's array when sp is a determined array; otherwise (sp NULL, an
\* OK status, which the call's contract excludes, or an array that is not
\* determined) the call ends the process or returns an array of which no
\* byte is determined
CloneOf(h, sp, msg) ==
  IF sp # NULL /\ Determined(h, sp)
  THEN { [crash |-> FALSE, bytes |-> CloneAndPrepend(h[sp].bytes, msg)] }
  ELSE { [crash |-> TRUE, bytes |-> Indeterminate],
         [crash |-> FALSE, bytes |-> Indeterminate] }

\* mutant: the macros' test inverted
MacroTestInverted(i) == ok(i)

\* PREDICT_FALSE(!_s.ok())
MacroTest(i) == ~ok(i)

\* Status _s = (s);  where s evaluates to an OK status
MacroDeclOk ==
  /\ mac.pc = "start"
  /\ inst' = [inst EXCEPT ![MacroS] = [alive |-> TRUE, state_ |-> NULL]]
  /\ mac' = [mac EXCEPT !.pc = "test", !.evals = @ + 1, !.sOk = TRUE,
                        !.sReport = << kOk, Empty >>]
  /\ UNCHANGED << heap, pend, last, orig, rd, readFreed >>

\* Status _s = (s);  where s evaluates to an error status
MacroDeclError(name, msg, msg2, parg) ==
  /\ mac.pc = "start"
  /\ \E p \in FreeAddrs :
       /\ heap' = NewArr(heap, p, Factory(name, msg, msg2, parg))
       /\ inst' = [inst EXCEPT ![MacroS] = [alive |-> TRUE, state_ |-> p]]
  /\ mac' = [mac EXCEPT !.pc = "test", !.evals = @ + 1, !.sOk = FALSE,
                        !.sReport = BuiltReport(Factory(name, msg, msg2, parg))]
  /\ UNCHANGED << pend, last, orig, rd, readFreed >>

\* RETURN_NOT_OK:  if (PREDICT_FALSE(!_s.ok())) return _s;
RETURN_NOT_OK ==
  /\ mac.pc = "test" /\ mac.kind = "RETURN_NOT_OK"
  /\ MacroTest(MacroS)
  /\ \E r \in CopyOf(heap, state_(MacroS)) :
       /\ heap' = r[2]
       /\ inst' = [inst EXCEPT ![MacroRet] = [alive |-> TRUE, state_ |-> r[1]]]
  /\ mac' = [mac EXCEPT !.pc = "return"]
  /\ UNCHANGED << pend, last, orig, rd, readFreed >>

\* RETURN_NOT_OK_PREPEND:
\*   if (PREDICT_FALSE(!_s.ok())) return _s.CloneAndPrepend(msg);
RETURN_NOT_OK_PREPEND ==
  /\ mac.pc = "test" /\ mac.kind = "RETURN_NOT_OK_PREPEND"
  /\ MacroTest(MacroS)
  /\ \E p \in FreeAddrs, o \in CloneOf(heap, state_(MacroS), mac.prefix) :
       /\ heap' = IF o.crash THEN heap ELSE NewArr(heap, p, o.bytes)
       /\ inst' = IF o.crash THEN inst
                  ELSE [inst EXCEPT ![MacroRet] = [alive |-> TRUE, state_ |-> p]]
       /\ mac' = [mac EXCEPT !.pc = IF o.crash THEN "crashed" ELSE "return",
                             !.cloneOnOk = ok(MacroS)]
  /\ UNCHANGED << pend, last, orig, rd, readFreed >>

\* the test is false: control leaves the if
MacroContinue ==
  /\ mac.pc = "test"
  /\ ~MacroTest(MacroS)
  /\ mac' = [mac EXCEPT !.pc = "continue"]
  /\ UNCHANGED << inst, heap, pend, last, orig, rd, readFreed >>

\* } while (0);  _s goes out of scope, on either path
MacroScopeExit ==
  /\ mac.pc \in { "return", "continue" }
  /\ heap' = DeleteArr(heap, state_(MacroS))
  /\ inst' = [inst EXCEPT ![MacroS] = [alive |-> FALSE, state_ |-> NULL]]
  /\ mac' = [mac EXCEPT !.pc = IF mac.pc = "return" THEN "returned" ELSE "continued"]
  /\ UNCHANGED << pend, last, orig, rd, readFreed >>

InitMacro ==
  /\ inst = [i \in Inst |-> [alive |-> FALSE, state_ |-> NULL]]
  /\ heap = [p \in Addr |-> [bytes |-> Indeterminate, live |-> FALSE, bad |-> FALSE]]
  /\ pend = NoPend
  /\ last = NoCall
  /\ orig = [i \in Inst |-> NoOrig]
  /\ rd = [t \in Readers |-> NoReader]
  /\ readFreed = FALSE
  /\ mac \in { [NoMacro EXCEPT !.pc = "start", !.kind = k,
                 !.prefix = IF k = "RETURN_NOT_OK" THEN Empty ELSE MacroPrefix] :
               k \in MacroKinds }

NextMacro ==
  \/ MacroDeclOk
  \/ \E name \in Categories, msg \in ValueMsgs, msg2 \in ValueMsgs2,
        parg \in ValuePosix :
       MacroDeclError(name, msg, msg2, parg)
  \/ RETURN_NOT_OK
  \/ RETURN_NOT_OK_PREPEND
  \/ MacroContinue
  \/ MacroScopeExit

SpecMacro == InitMacro /\ [][NextMacro]_vars

\* ------------------------------------------------------------- claims
Built(i) == inst[i].alive /\ last.tgt = i

\* C1: the Status a category factory returns answers true to the predicate of
\* its own category and false to the predicates of the 15 other categories,
\* whatever the messages and the posix code.
C1_FactoryAnswersOnlyItsPredicate ==
  \A i \in Inst :
    (Built(i) /\ last.op = "factory") =>
      \A n \in Categories : Is(n, code(i)) <=> (n = last.name)

C1_Witness ==
  /\ last.op = "factory" /\ last.name = "IOError" /\ inst[last.tgt].alive
  /\ last.msg2 = MsgB /\ last.parg = << 255 >>
  /\ Is("IOError", code(last.tgt)) /\ ~Is("InvalidArgument", code(last.tgt))

\* C2: ok() is true exactly when state_ is NULL: true for Status() and
\* Status::OK(), false for what every category factory returns; and an ok()
\* status has code() kOk and answers false to every Is<Category>().
C2_OkIffNoPayload ==
  \A i \in Inst :
    inst[i].alive =>
      /\ ok(i) <=> (state_(i) = NULL)
      /\ (last.tgt = i /\ last.op \in { "Status", "OK" }) => ok(i)
      /\ (last.tgt = i /\ last.op = "factory") => ~ok(i)
      /\ ok(i) => (code(i) = kOk /\ \A n \in Categories : ~Is(n, code(i)))

C2_Witness ==
  /\ last.op = "OK" /\ inst[last.tgt].alive
  /\ ok(last.tgt) /\ code(last.tgt) = kOk

\* C7: posix_code() is -1 for a factory called without a posix code and for
\* an OK status, and is p for a factory called with p >= 0; the code lies in
\* the two bytes state_[5..6], before the message at state_[7].
C7_PosixCodeRoundTrip ==
  \A i \in Inst :
    inst[i].alive =>
      /\ ok(i) => posix_code(i) = -1
      /\ (last.tgt = i /\ last.op = "factory") =>
           /\ Len(last.parg) = 0 => posix_code(i) = -1
           /\ (Len(last.parg) = 1 /\ last.parg[1] >= 0) =>
                posix_code(i) = last.parg[1]
           /\ LET b == heap[state_(i)].bytes
              IN  /\ b[6] \in 0..255 /\ b[7] \in 0..255
                  /\ Len(b) = 7 + Len(message(i))

C7_Witness ==
  /\ last.op = "factory" /\ inst[last.tgt].alive
  /\ last.parg = << 32767 >> /\ posix_code(last.tgt) = 32767
  /\ message(last.tgt) = MsgA

\* C3: an instance that was given its value by copy construction or
\* assignment reports the category and message its source reported then, the
\* source is left as it was, and the copy goes on reporting them when the
\* source is later reassigned or destroyed (orig is what each instance was
\* given; only the target of a call is ever given a new value).
C3_CopyIndependence ==
  \A i \in Inst :
    (inst[i].alive /\ pend.tgt # i) => (Known(i) /\ Report(i) = orig[i])

C3_Witness ==
  /\ Idle /\ inst[CopyA].alive /\ inst[CopyB].alive
  /\ ~ok(CopyB) /\ Known(CopyB) /\ Report(CopyB) = orig[CopyB]
  /\ last.op = "assign" /\ last.tgt = CopyA /\ last.old # NULL
  /\ code(CopyA) \notin { kOk, code(CopyB) }

\* C4: no array is deleted twice, and every allocated array is owned by a
\* live instance, so that whatever no instance owns has been freed once.
C4_NoLeakNoDoubleFree ==
  \A p \in Addr :
    /\ ~heap[p].bad
    /\ heap[p].live => \E i \in Inst : inst[i].alive /\ state_(i) = p

C4_Witness ==
  /\ last.op = "assign" /\ last.tgt # last.src /\ last.old # NULL
  /\ inst[last.tgt].alive /\ ok(last.tgt)
  /\ ~heap[last.old].live /\ ~heap[last.old].bad

\* C5: operator= applied to an instance and itself, or to two OK instances,
\* completes in one step that allocates nothing, frees nothing and leaves the
\* instances as they were.
C5_SelfAndOkAssignAreNoOps ==
  [][ \A i, j \in Inst :
        ( /\ AssignSkip(i, j) \/ AssignDelete(i, j)
          /\ i = j \/ (ok(i) /\ ok(j)) )
        => (heap' = heap /\ inst' = inst /\ pend' = NoPend) ]_vars

C5_Witness ==
  /\ last.op = "assign" /\ last.tgt = last.src
  /\ inst[last.tgt].alive /\ ~ok(last.tgt) /\ Valid(last.tgt)
  /\ state_(last.tgt) = last.old

\* C9 as stated: at no step, the steps inside operator= included, does a live
\* instance's state_ refer to an array that has been freed.
C9_NoTransientDangling ==
  \A i \in Inst : inst[i].alive => Valid(i)

\* C9 amended: state_ refers to a freed array only in the instance operator=
\* is assigning to, between its delete[] and its store; every other live
\* instance, and every instance once operator= has returned, has a state_
\* that is NULL or an allocated array.
C9_DanglingOnlyInsideAssign ==
  \A i \in Inst : inst[i].alive => (Valid(i) \/ pend.tgt = i)

C9_Witness ==
  /\ Idle /\ last.op = "assign" /\ last.tgt # last.src /\ last.old # NULL
  /\ inst[last.tgt].alive /\ ~ok(last.tgt) /\ Valid(last.tgt)

\* C10: no two live instances hold the same non-NULL state_, so the test of
\* operator= is false only for self-assignment or for two OK instances.
C10_ExclusiveOwnership ==
  \A i, j \in Inst :
    (inst[i].alive /\ inst[j].alive) =>
      /\ (i # j /\ state_(i) # NULL) => state_(i) # state_(j)
      /\ ~NeedsCopy(i, j) => (i = j \/ (ok(i) /\ ok(j)))

C10_Witness ==
  /\ last.op = "copy" /\ inst[last.tgt].alive /\ inst[last.src].alive
  /\ ~ok(last.src) /\ ~ok(last.tgt) /\ Known(last.src) /\ Known(last.tgt)
  /\ state_(last.tgt) # state_(last.src)
  /\ Report(last.tgt) = Report(last.src)

\* C6: while the writer never assigns to or destroys the shared instance,
\* every const call of every reader returns what it returns in a sequential
\* execution, the shared instance keeps the value it was constructed with,
\* and no reader reads a freed array.
C6_ConcurrentReaders ==
  inst[Shared].alive =>
    /\ Known(Shared) /\ Report(Shared) = orig[Shared]
    /\ ~readFreed
    /\ \A t \in Readers :
         /\ rd[t].pc = "loaded" => rd[t].reg = state_(Shared)
         /\ rd[t].pc = "done" => rd[t].res = << SeqResult(rd[t].call) >>

C6_Witness ==
  /\ \E t, u \in Readers :
       /\ rd[t].pc = "loaded" /\ rd[u].pc = "done" /\ rd[u].call = "NotFound"
       /\ rd[u].res = << TRUE >>
  /\ pend = [tgt |-> Private, src |-> Shared]
  /\ ~ok(Shared)

\* C8: the macros evaluate s once; the function returns exactly when s is not
\* OK; RETURN_NOT_OK returns a status of s's category and message; and
\* CloneAndPrepend is never called on an OK status.
C8_EarlyReturn ==
  /\ mac.evals = (IF mac.pc = "start" THEN 0 ELSE 1)
  /\ mac.pc \in { "return", "returned" } =>
       /\ ~mac.sOk
       /\ inst[MacroRet].alive /\ Known(MacroRet) /\ ~ok(MacroRet)
       /\ mac.kind = "RETURN_NOT_OK" => Report(MacroRet) = mac.sReport
  /\ mac.pc \in { "continue", "continued" } =>
       (mac.sOk /\ ~inst[MacroRet].alive)
  /\ ~mac.cloneOnOk

C8_Witness ==
  /\ mac.pc = "returned" /\ mac.kind = "RETURN_NOT_OK_PREPEND"
  /\ ~inst[MacroS].alive /\ inst[MacroRet].alive /\ Known(MacroRet)
  /\ code(MacroRet) = kTimedOut
  /\ message(MacroRet) = MacroPrefix \o Delim \o MsgA

====
